---- MODULE Spec2Model ----
(***************************************************************************)
(* Model of reaper_portal_fc.py (the generic portal file chooser) and of   *)
(* the parenting code it shares with reaper_portal_open.py.                *)
(*                                                                         *)
(* Strings that the code inspects character by character (URIs, glob       *)
(* patterns, WM_CLASS values, /proc fields) are sequences of code points;  *)
(* strings that are only compared whole (labels, choice ids and values,    *)
(* signal names) are TLA+ strings.  Python's None is the empty tuple and   *)
(* a present optional value x is <<x>>.                                    *)
(***************************************************************************)
EXTENDS Integers, Sequences, FiniteSets, TLC

\* ------------------------------------------------------------------ bounds
\* Largest --timeout value drawn (seconds).
MaxTimeout == 1
\* Signals on the request object that are not Response.
MaxOther == 1
\* Longest URI body (after the scheme prefix) drawn for the payload check.
MaxBody == 3
\* Longest URI list drawn for the payload check.
MaxUris == 2
\* Number of top-level windows in the X11 snapshot of the parenting runs.
MaxWin == 2
\* Number of processes in the /proc table of the ancestor-walk runs.
MaxPid == 3
\* Longest command line of the host-affiliation runs, in pieces.
MaxCmd == 4
\* Longest --current-folder value drawn, in characters.
MaxPath == 4
\* Longest choices attribute drawn, in pairs.
MaxChoices == 2
MaxGlobs == 2

\* --------------------------------------------------------- Python values
None == << >>
Some(x) == <<x>>

Range(s) == {s[i] : i \in 1..Len(s)}

\* str.lower() on an ASCII code point / string
LowerChar(c) == IF c >= 65 /\ c <= 90 THEN c + 32 ELSE c
Lower(s) == [i \in 1..Len(s) |-> LowerChar(s[i])]

\* str.upper() on an ASCII code point / string
UpperChar(c) == IF c >= 97 /\ c <= 122 THEN c - 32 ELSE c
Upper(s) == [i \in 1..Len(s) |-> UpperChar(s[i])]

\* s.startswith(p)
StartsWith(s, p) == Len(s) >= Len(p) /\ SubSeq(s, 1, Len(p)) = p

\* p in s
Contains(s, p) == \E i \in 0..(Len(s) - Len(p)) : SubSeq(s, i + 1, i + Len(p)) = p

\* s.split(c) for a one-character separator
RECURSIVE SplitOn(_, _)
SplitOn(s, c) ==
    IF c \notin Range(s) THEN <<s>>
    ELSE LET k == CHOOSE i \in 1..Len(s) : s[i] = c /\ \A j \in 1..(i - 1) : s[j] # c
         IN  <<SubSeq(s, 1, k - 1)>> \o SplitOn(SubSeq(s, k + 1, Len(s)), c)

RECURSIVE Flatten(_)
Flatten(ss) == IF ss = << >> THEN << >> ELSE Head(ss) \o Flatten(Tail(ss))

\* ------------------------------------------------- urllib.parse.unquote
IsHex(c) == c \in 48..57 \/ c \in 65..70 \/ c \in 97..102
HexVal(c) == IF c <= 57 THEN c - 48 ELSE IF c <= 70 THEN c - 55 ELSE c - 87

\* bytes.decode("utf-8", "replace") of one byte that is not part of a
\* multi-byte sequence: ASCII is kept, anything else becomes U+FFFD.
DecodeByte(b) == IF b < 128 THEN b ELSE 65533

\* One piece after a '%': two hex digits become the byte, else the '%' stays.
UnquoteItem(item) ==
    IF Len(item) >= 2 /\ IsHex(item[1]) /\ IsHex(item[2])
    THEN <<DecodeByte(16 * HexVal(item[1]) + HexVal(item[2]))>> \o SubSeq(item, 3, Len(item))
    ELSE <<37>> \o item

unquote(s) ==
    IF 37 \notin Range(s) THEN s
    ELSE LET bits == SplitOn(s, 37)
         IN  bits[1] \o Flatten([i \in 1..(Len(bits) - 1) |-> UnquoteItem(bits[i + 1])])

\* "file://"
FilePrefix == <<102, 105, 108, 101, 58, 47, 47>>

\* mutant: the scheme prefix is cut off but the path is not decoded
UriToPath_NoUnquote(uri) ==
    IF StartsWith(uri, FilePrefix) THEN SubSeq(uri, Len(FilePrefix) + 1, Len(uri)) ELSE uri

\* on_resp, URIs -> file paths: one URI
UriToPath(uri) ==
    IF StartsWith(uri, FilePrefix)
    THEN unquote(SubSeq(uri, Len(FilePrefix) + 1, Len(uri)))
    ELSE uri

\* on_resp, URIs -> file paths: the loop appending to result['paths']
UrisToPaths(paths, uris) == paths \o [i \in 1..Len(uris) |-> UriToPath(uris[i])]

\* ----------------------------------------------------- choices -> {id: bool}
\* A choices attribute is [shape |-> "dict" | "list", items |-> <<k, v>> pairs];
\* the keys of a dict are distinct.
\* dict shape: {k: (v == 'true') for k, v in ch.items()}
ChoicesFromDict(items) ==
    LET keys == {items[i][1] : i \in 1..Len(items)}
    IN  [k \in keys |-> items[CHOOSE i \in 1..Len(items) : items[i][1] = k][2] = "true"]

\* mutant: the list shape also takes "1" for a ticked choice
RECURSIVE ChoicesFromList_Truthy(_, _)
ChoicesFromList_Truthy(items, tmp) ==
    IF items = << >> THEN tmp
    ELSE LET k == Head(items)[1]
             v == Head(items)[2]
         IN  ChoicesFromList_Truthy(Tail(items),
                 [x \in (DOMAIN tmp) \cup {k} |-> IF x = k THEN v \in {"true", "1"} ELSE tmp[x]])

\* list shape: tmp[k] = (v == 'true') for each pair in turn
RECURSIVE ChoicesFromList(_, _)
ChoicesFromList(items, tmp) ==
    IF items = << >> THEN tmp
    ELSE LET k == Head(items)[1]
             v == Head(items)[2]
         IN  ChoicesFromList(Tail(items),
                 [x \in (DOMAIN tmp) \cup {k} |-> IF x = k THEN v = "true" ELSE tmp[x]])

\* the empty dict {}
EmptyDict == [x \in {} |-> FALSE]

NormChoices(ch) ==
    IF ch.shape = "dict" THEN ChoicesFromDict(ch.items)
    ELSE ChoicesFromList(ch.items, EmptyDict)

\* ------------------------------------------------------------ filters
\* original_globs_by_label: label -> patterns of the last --filter with it
OriginalGlobsByLabel(fs) ==
    LET labels == {fs[i].label : i \in 1..Len(fs)}
        last(l) == CHOOSE i \in 1..Len(fs) :
                      /\ fs[i].label = l
                      /\ \A j \in (i + 1)..Len(fs) : fs[j].label # l
    IN  [l \in labels |-> fs[last(l)].globs]

\* _unpack_current_filter: (label, globs of kind 0, or None when there are none)
RECURSIVE GlobsOf(_)
GlobsOf(entries) ==
    IF entries = << >> THEN << >>
    ELSE (IF Head(entries)[1] = 0 THEN <<Head(entries)[2]>> ELSE << >>)
         \o GlobsOf(Tail(entries))

UnpackCurrentFilter(cf) ==
    LET globs == GlobsOf(cf.entries)
    IN  [label |-> cf.label, globs |-> IF globs = << >> THEN None ELSE Some(globs)]

\* a lookup that keeps the last original of a lower-cased form
MapOne_LastMatch(originals, g) ==
    IF \E i \in 1..Len(originals) : Lower(originals[i]) = Lower(g)
    THEN originals[CHOOSE i \in 1..Len(originals) :
                      /\ Lower(originals[i]) = Lower(g)
                      /\ \A j \in (i + 1)..Len(originals) : Lower(originals[j]) # Lower(g)]
    ELSE g

\* lc_map.get(g.lower(), g): the first original whose lower case is g's
MapOne(originals, g) ==
    IF \E i \in 1..Len(originals) : Lower(originals[i]) = Lower(g)
    THEN originals[CHOOSE i \in 1..Len(originals) :
                      /\ Lower(originals[i]) = Lower(g)
                      /\ \A j \in 1..(i - 1) : Lower(originals[j]) # Lower(g)]
    ELSE g

\* _map_backend_globs_to_originals; backend is None or Some(list)
MapBackendGlobsToOriginals(orig, label, backend) ==
    IF label = "" \/ backend = None THEN backend
    ELSE IF label \notin DOMAIN orig THEN backend
    ELSE IF orig[label] = << >> THEN backend
    ELSE Some([i \in 1..Len(backend[1]) |-> MapOne(orig[label], backend[1][i])])

\* ------------------------------------------------- /proc ancestor walk
\* "reaper" and " reaper"
Marker == <<114, 101, 97, 112, 101, 114>>
SpaceMarker == <<32>> \o Marker

\* (x or "").lower() for an optional string
LowerOrEmpty(x) == IF x = None THEN << >> ELSE Lower(x[1])

\* collect_ancestors: the host-affiliation test of one /proc entry
\* [ppid, comm, exe, cmd], each field None when it cannot be read
IsReaperProc(e) ==
    \/ Contains(LowerOrEmpty(e.comm), Marker)
    \/ Contains(LowerOrEmpty(e.exe), Marker)
    \/ Contains(LowerOrEmpty(e.cmd), SpaceMarker)
    \/ StartsWith(LowerOrEmpty(e.cmd), Marker)

\* collect_ancestors: the while loop from pid on (pid is None or <<n>>);
\* returns [anc, reaper]
RECURSIVE WalkAncestors(_, _, _, _)
WalkAncestors(table, pid, anc, rea) ==
    IF pid = None THEN [anc |-> anc, reaper |-> rea]
    ELSE IF pid[1] = 0 \/ pid[1] \in anc \/ ~(pid[1] > 0) THEN [anc |-> anc, reaper |-> rea]
    ELSE LET p == pid[1]
         IN  WalkAncestors(table, table[p].ppid, anc \cup {p},
                           IF IsReaperProc(table[p]) THEN rea \cup {p} ELSE rea)

\* collect_ancestors(), starting at os.getppid()
CollectAncestors(table, start) == WalkAncestors(table, Some(start), {}, {})

\* the locals of collect_ancestors before it is called
WalkIdle ==
    [pc |-> "idle", pid |-> None, seen |-> {}, anc |-> {}, rea |-> {}, visited |-> << >>]

\* mutant: the loop does not look at the seen set
WalkContinues_NoSeen(pid, seen) == pid # None /\ pid[1] # 0 /\ pid[1] > 0

\* while pid and pid not in seen and pid > 0
WalkContinues(pid, seen) == pid # None /\ pid[1] # 0 /\ pid[1] \notin seen /\ pid[1] > 0

\* ------------------------------------------------- X11 window filters
\* _is_normal: some reported type is _NET_WM_WINDOW_TYPE_NORMAL
IsNormal(w) == "NORMAL" \in w.types

\* _has_transient_for
HasTransientFor(w) == w.transient

\* _wm_class_has_reaper: the WM_CLASS value, lower-cased, holds "reaper"
WmClassHasReaper(w) == w.wmclass # None /\ Contains(Lower(w.wmclass[1]), Marker)

\* mutant: the owner is not looked up in the ancestor set
Qualifies_NoAncestorCheck(w, anc) ==
    /\ IsNormal(w)
    /\ ~HasTransientFor(w)
    /\ WmClassHasReaper(w)
    /\ w.pid # None

\* the four continue-tests of the candidate loop, in the code's order
Qualifies(w, anc) ==
    /\ IsNormal(w)
    /\ ~HasTransientFor(w)
    /\ WmClassHasReaper(w)
    /\ w.pid # None
    /\ w.pid[1] \in anc

\* pref = 2 if pid in reaper_anc else 1
Pref(pid, rea) == IF pid \in rea THEN 2 ELSE 1

\* mutant: the scan stops at the first window that qualifies
StopsScan_AtFirst(pref) == pref >= 1

\* the scan stops at a window of this preference
StopsScan(pref) == pref = 2

\* mutant: a window of equal preference replaces the running best
Improves_OrTies(pref, bestPref) == pref >= bestPref

\* if pref > best_pref
Improves(pref, bestPref) == pref > bestPref

\* the candidate loop from position i on; best is None or <<window>>
RECURSIVE ScanCandidates(_, _, _, _, _, _)
ScanCandidates(ids, i, best, bestPref, wins, a) ==
    IF i > Len(ids) THEN best
    ELSE IF ~Qualifies(wins[ids[i]], a.anc)
         THEN ScanCandidates(ids, i + 1, best, bestPref, wins, a)
    ELSE LET pref == Pref(wins[ids[i]].pid[1], a.reaper)
         IN  IF Improves(pref, bestPref)
             THEN IF StopsScan(pref) THEN Some(ids[i])
                  ELSE ScanCandidates(ids, i + 1, Some(ids[i]), pref, wins, a)
             ELSE ScanCandidates(ids, i + 1, best, bestPref, wins, a)

\* list(reversed(seq))
Reverse(s) == [i \in 1..Len(s) |-> s[Len(s) + 1 - i]]

\* the stacking list as reported, bottom-most first
CandidateIds_Unreversed(stack, client) == IF stack # << >> THEN stack ELSE client

\* ids: the stacking list top-most first, else the client list
CandidateIds(stack, client) == IF Reverse(stack) # << >> THEN Reverse(stack) ELSE client

\* "x11:", "wayland", and the hex id "0x<n>" of window n
X11Prefix == <<120, 49, 49, 58>>
Wayland == <<119, 97, 121, 108, 97, 110, 100>>
WidStr(n) == <<48, 120, 48 + n>>

\* mutant: the forced override is looked at before the three gates
DetectParentX11ViaAnc_ForcedFirst(e, x) ==
    IF e.forced # None /\ e.forced[1] # << >> /\ StartsWith(e.forced[1], X11Prefix)
    THEN e.forced
    ELSE IF LowerOrEmpty(e.session) = Wayland THEN None
    ELSE IF e.noParent = Some("1") THEN None
    ELSE IF ~e.xprop THEN None
    ELSE LET a == CollectAncestors(x.table, x.ppid)
             best == ScanCandidates(CandidateIds(x.stack, x.client), 1, None, -1, x.wins, a)
         IN  IF best # None THEN Some(X11Prefix \o WidStr(best[1])) ELSE None

\* detect_parent_x11_via_anc: None or <<token>>.  e is the environment
\* [session, noParent, xprop, forced]; x is the X11 and /proc snapshot
\* [ppid, table, stack, client, wins].
DetectParentX11ViaAnc(e, x) ==
    IF LowerOrEmpty(e.session) = Wayland THEN None
    ELSE IF e.noParent = Some("1") THEN None
    ELSE IF ~e.xprop THEN None
    ELSE IF e.forced # None /\ e.forced[1] # << >> /\ StartsWith(e.forced[1], X11Prefix)
         THEN e.forced
    ELSE LET a == CollectAncestors(x.table, x.ppid)
             best == ScanCandidates(CandidateIds(x.stack, x.client), 1, None, -1, x.wins, a)
         IN  IF best # None THEN Some(X11Prefix \o WidStr(best[1])) ELSE None

\* parent or '': the parent_window string of the method call
ParentParam(p) == IF p = None THEN << >> ELSE p[1]

\* a main that looks at --parent before PORTAL_NO_PARENT
MainParentToken_ArgFirst(e, argParent, x) ==
    IF argParent # None /\ argParent[1] # << >> THEN argParent
    ELSE IF e.noParent # Some("1") /\ LowerOrEmpty(e.session) # Wayland
         THEN DetectParentX11ViaAnc(e, x)
    ELSE None

\* main: the parent handed to open_via_portal
MainParentToken(e, argParent, x) ==
    IF e.noParent # Some("1")
    THEN IF argParent # None /\ argParent[1] # << >> THEN argParent
         ELSE IF LowerOrEmpty(e.session) # Wayland THEN DetectParentX11ViaAnc(e, x)
         ELSE None
    ELSE None

\* ------------------------------------------------- the resolver's reads
\* One read of the operating system: a /proc file of a pid, a property of
\* the root window, or a property of a window.
Query(kind, id, prop) == [kind |-> kind, id |-> id, prop |-> prop]

\* one loop step of collect_ancestors reads comm, exe, cmdline and status
ProcReads(p) ==
    <<Query("proc", p, "comm"), Query("proc", p, "exe"),
      Query("proc", p, "cmdline"), Query("proc", p, "status")>>

\* the reads of collect_ancestors from pid on
RECURSIVE WalkQueries(_, _, _)
WalkQueries(table, pid, seen) ==
    IF pid = None THEN << >>
    ELSE IF pid[1] = 0 \/ pid[1] \in seen \/ ~(pid[1] > 0) THEN << >>
    ELSE ProcReads(pid[1]) \o WalkQueries(table, table[pid[1]].ppid, seen \cup {pid[1]})

\* the xprop calls of the continue-tests for one window, in the code's order
WindowReads(wid, w) ==
    <<Query("win", wid, "_NET_WM_WINDOW_TYPE")>>
    \o (IF IsNormal(w) THEN <<Query("win", wid, "WM_TRANSIENT_FOR")>> ELSE << >>)
    \o (IF IsNormal(w) /\ ~HasTransientFor(w) THEN <<Query("win", wid, "WM_CLASS")>> ELSE << >>)
    \o (IF IsNormal(w) /\ ~HasTransientFor(w) /\ WmClassHasReaper(w)
        THEN <<Query("win", wid, "_NET_WM_PID")>> ELSE << >>)

\* the xprop calls of the candidate loop from position i on
RECURSIVE ScanQueries(_, _, _, _, _)
ScanQueries(ids, i, bestPref, wins, a) ==
    IF i > Len(ids) THEN << >>
    ELSE LET w == wins[ids[i]]
             reads == WindowReads(ids[i], w)
         IN  IF ~Qualifies(w, a.anc) THEN reads \o ScanQueries(ids, i + 1, bestPref, wins, a)
             ELSE LET pref == Pref(w.pid[1], a.reaper)
                  IN  IF Improves(pref, bestPref)
                      THEN IF StopsScan(pref) THEN reads
                           ELSE reads \o ScanQueries(ids, i + 1, pref, wins, a)
                      ELSE reads \o ScanQueries(ids, i + 1, bestPref, wins, a)

\* the two list queries: the client list is asked for only when the
\* stacking list yields no ids
ListReads(stack) ==
    <<Query("root", 0, "_NET_CLIENT_LIST_STACKING")>>
    \o (IF Reverse(stack) = << >> THEN <<Query("root", 0, "_NET_CLIENT_LIST")>> ELSE << >>)

\* detect_parent_x11_via_anc: the reads it issues, in order
DetectQueries(e, x) ==
    IF LowerOrEmpty(e.session) = Wayland THEN << >>
    ELSE IF e.noParent = Some("1") THEN << >>
    ELSE IF ~e.xprop THEN << >>
    ELSE IF e.forced # None /\ e.forced[1] # << >> /\ StartsWith(e.forced[1], X11Prefix)
         THEN << >>
    ELSE LET a == CollectAncestors(x.table, x.ppid)
         IN  WalkQueries(x.table, Some(x.ppid), {})
             \o ListReads(x.stack)
             \o ScanQueries(CandidateIds(x.stack, x.client), 1, -1, x.wins, a)

\* main: the reads issued while the parent token is decided
MainParentQueries(e, argParent, x) ==
    IF e.noParent # Some("1")
    THEN IF argParent # None /\ argParent[1] # << >> THEN << >>
         ELSE IF LowerOrEmpty(e.session) # Wayland THEN DetectQueries(e, x)
         ELSE << >>
    ELSE << >>

\* ------------------------------------------ path -> 'ay' marshalling
\* bool(s) of an optional string: given and not empty
Truthy(a) == a # None /\ a[1] # << >>

\* s.rstrip('/')
RECURSIVE RStripSlash(_)
RStripSlash(s) ==
    IF s # << >> /\ s[Len(s)] = 47 THEN RStripSlash(SubSeq(s, 1, Len(s) - 1)) ELSE s

\* os.path.expanduser: "~" and "~/..." take $HOME; "~name" of a user the
\* password database does not know is left as it is
ExpandUser(home, path) ==
    IF ~StartsWith(path, <<126>>) THEN path
    ELSE LET rest == SubSeq(path, 2, Len(path))
             i == IF 47 \in Range(rest)
                  THEN 1 + (CHOOSE k \in 1..Len(rest) :
                               rest[k] = 47 /\ \A j \in 1..(k - 1) : rest[j] # 47)
                  ELSE Len(path) + 1
         IN  IF i = 2
             THEN LET r == RStripSlash(home) \o SubSeq(path, i, Len(path))
                  IN  IF r = << >> THEN <<47>> ELSE r
             ELSE path

\* os.path.join(a, b)
JoinPath(a, b) ==
    IF StartsWith(b, <<47>>) THEN b
    ELSE IF a = << >> \/ a[Len(a)] = 47 THEN a \o b
    ELSE a \o <<47>> \o b

\* os.path.normpath: the component loop
RECURSIVE NormComps(_, _, _)
NormComps(comps, new, rooted) ==
    IF comps = << >> THEN new
    ELSE LET c == Head(comps)
         IN  IF c = << >> \/ c = <<46>> THEN NormComps(Tail(comps), new, rooted)
             ELSE IF \/ c # <<46, 46>>
                     \/ (~rooted /\ new = << >>)
                     \/ (new # << >> /\ new[Len(new)] = <<46, 46>>)
                  THEN NormComps(Tail(comps), Append(new, c), rooted)
             ELSE IF new # << >>
                  THEN NormComps(Tail(comps), SubSeq(new, 1, Len(new) - 1), rooted)
             ELSE NormComps(Tail(comps), new, rooted)

\* '/'.join(comps)
RECURSIVE JoinSlash(_)
JoinSlash(comps) ==
    IF comps = << >> THEN << >>
    ELSE IF Len(comps) = 1 THEN comps[1]
    ELSE comps[1] \o <<47>> \o JoinSlash(Tail(comps))

\* os.path.normpath: exactly two leading slashes are kept, "" is "."
NormPath(path) ==
    IF path = << >> THEN <<46>>
    ELSE LET slashes == IF StartsWith(path, <<47, 47>>) /\ ~StartsWith(path, <<47, 47, 47>>)
                        THEN 2
                        ELSE IF StartsWith(path, <<47>>) THEN 1 ELSE 0
             r == [i \in 1..slashes |-> 47]
                  \o JoinSlash(NormComps(SplitOn(path, 47), << >>, slashes > 0))
         IN  IF r = << >> THEN <<46>> ELSE r

\* os.path.abspath: no symbolic link is resolved
AbsPath(cwd, path) ==
    IF StartsWith(path, <<47>>) THEN NormPath(path) ELSE NormPath(JoinPath(cwd, path))

\* os.path.isdir of a normalised path; the kernel reads "//a" as "/a"
IsDir(fs, p) == (IF StartsWith(p, <<47, 47>>) THEN Tail(p) ELSE p) \in fs.dirs

\* os.fsencode(s) + b"\x00" for an ASCII path
NulTerminated(s) == s \o <<0>>

\* mutant: the normalised path is sent whether or not it is a directory
AyDirOrHome_NoCheck(fs, given) ==
    NulTerminated(IF Truthy(given) THEN AbsPath(fs.cwd, ExpandUser(fs.home, given[1]))
                  ELSE ExpandUser(fs.home, <<126>>))

\* ay_dir_or_home
AyDirOrHome(fs, given) ==
    LET home == ExpandUser(fs.home, <<126>>)
        s == IF Truthy(given)
             THEN LET p == AbsPath(fs.cwd, ExpandUser(fs.home, given[1]))
                  IN  IF IsDir(fs, p) THEN p ELSE home
             ELSE home
    IN  NulTerminated(s)

\* ay_file_from_path: no existence check
AyFileFromPath(fs, given) ==
    IF ~Truthy(given) THEN None
    ELSE Some(NulTerminated(AbsPath(fs.cwd, ExpandUser(fs.home, given[1]))))

\* ------------------------------------------------------- the option set
\* _dupe_case_globs: the upper and the lower variant of each pattern, each
\* variant once, in order
RECURSIVE DupeCaseGlobs(_, _)
DupeCaseGlobs(globs, acc) ==
    IF globs = << >> THEN acc
    ELSE LET ups == Upper(Head(globs))
             lows == Lower(Head(globs))
             a1 == IF ups \in Range(acc) THEN acc ELSE Append(acc, ups)
             a2 == IF lows \in Range(a1) THEN a1 ELSE Append(a1, lows)
         IN  DupeCaseGlobs(Tail(globs), a2)

\* filters_expanded
FiltersExpanded(fl) ==
    [i \in 1..Len(fl) |-> [label |-> fl[i].label, globs |-> DupeCaseGlobs(fl[i].globs, << >>)]]

\* mutant: SaveFile always names a start folder
SendsCurrentFolder_Always(m, a) == TRUE

\* current_folder handling: is the option set at all
SendsCurrentFolder(m, a) ==
    IF m \in {"OpenFile", "SelectFolder"} THEN TRUE
    ELSE Truthy(a.currentFolder) \/ ~Truthy(a.currentFile)

\* open_via_portal: the options that depend on the start location and the
\* filters (flags, labels and names are handed through as given)
BuildOpts(m, a, fs, fl) ==
    [current_folder |->
        IF SendsCurrentFolder(m, a)
        THEN Some(AyDirOrHome(fs, IF m = "SaveFile" /\ ~Truthy(a.currentFolder)
                                  THEN None ELSE a.currentFolder))
        ELSE None,
     filters |-> IF FiltersExpanded(fl) # << >> THEN Some(FiltersExpanded(fl)) ELSE None,
     current_file |-> IF m = "SaveFile" THEN AyFileFromPath(fs, a.currentFile) ELSE None]

\* ------------------------------------------------------------ result record
\* result as created by open_via_portal
InitialResult ==
    [paths |-> << >>, choices |-> EmptyDict, label |-> None, globs |-> None, done |-> FALSE]

\* mutant: the status code is not looked at
IsSuccess_Any(code) == TRUE

\* if code == 0
IsSuccess(code) == code = 0

\* on_resp for a Response signal: the record after the try block
OnRespResult(res, m, fs, code, a) ==
    LET r1 == IF IsSuccess(code)
              THEN [res EXCEPT !.paths = UrisToPaths(res.paths, a.uris),
                               !.choices = NormChoices(a.choices)]
              ELSE res
        r2 == IF IsSuccess(code) /\ m = "SaveFile" /\ a.current_filter # None
              THEN LET u == UnpackCurrentFilter(a.current_filter[1])
                   IN  [r1 EXCEPT !.label = Some(u.label),
                                  !.globs = MapBackendGlobsToOriginals(
                                               OriginalGlobsByLabel(fs), u.label, u.globs)]
              ELSE r1
    IN  [r2 EXCEPT !.done = TRUE]

\* A payload may be ill-typed; resp then has a field fault naming the part:
\* "body" (params.unpack() does not give a pair), "uris" (the uris attribute
\* cannot be iterated), "label" (the current_filter label cannot be hashed).
\* on_resp raises at the statement that meets the fault.
Raises(m, r) ==
    /\ "fault" \in DOMAIN r
    /\ \/ r.fault = "body"
       \/ r.fault = "uris" /\ IsSuccess(r.code)
       \/ /\ r.fault = "label"
          /\ IsSuccess(r.code)
          /\ m = "SaveFile"
          /\ r.attrs.current_filter # None
          /\ UnpackCurrentFilter(r.attrs.current_filter[1]).globs # None

\* on_resp for a Response signal whose processing raises: the record as the
\* statements before the raise have left it; result['done'] is not reached
RaisedResult(res, m, r) ==
    IF r.fault = "label"
    THEN [res EXCEPT !.paths = UrisToPaths(res.paths, r.attrs.uris),
                     !.choices = NormChoices(r.attrs.choices),
                     !.label = Some(r.attrs.current_filter[1].label)]
    ELSE res

\* mutant: the deadline is armed for more than one second only
TimerWanted_OffByOne(t) == t # 0 /\ t > 1

\* mutant: zero arms the deadline too
TimerWanted_ZeroArms(t) == t >= 0

\* open_via_portal arms the deadline only for a timeout > 0
TimerWanted(t) == t # 0 /\ t > 0

\* main: the record written on success
SuccessOutput(res) ==
    [path   |-> IF res.paths = << >> THEN None ELSE Some(res.paths[1]),
     paths  |-> res.paths,
     choices |-> res.choices,
     selected_filter_label |-> res.label,
     selected_filter_globs |-> res.globs]

\* main: the record written when anything raised
ErrorOutput == [error |-> "portal call failed"]

\* ------------------------------------------------------------------ state
VARIABLES
    timeout,    \* args.timeout
    method,     \* "OpenFile" | "SaveFile" | "SelectFolder"
    filters,    \* args.filter after parse_filter_arg: <<[label, globs]>>
    argParent,  \* args.parent
    env,        \* the environment directives
    x,          \* the /proc and X11 snapshot
    resp,       \* the Response the service answers with: [code, attrs]
    args,       \* args.current_folder, args.current_file (None when not given)
    fsys,       \* the file system: [home, cwd, dirs]
    pc,         \* where main / open_via_portal stands
    parent,     \* the parent token main computed
    detected,   \* the value detect_parent_x11_via_anc returned, <<v>> once called
    queries,    \* the /proc and xprop reads the resolver has issued, in order
    walk,       \* the locals of collect_ancestors, stepped through its loop
    opts,       \* the option set handed to the portal method, None until built
    result,     \* the result dict of open_via_portal
    running,    \* the main loop's is_running flag
    timer,      \* the deadline source: "none" | "armed" | "expired" | "removed"
    sigq,       \* signals received for the request proxy, not yet dispatched
    batch,      \* sources the current loop iteration still dispatches
    emitted,    \* the service has emitted its Response
    others,     \* number of other signals emitted
    callCount,  \* number of times the portal method was called
    loopRuns,   \* number of times loop.run() was entered
    hist,       \* the terminal transitions taken, in order:
                \* "Completed" | "TimedOut" | "Failed"
    out,        \* the records written by write_json, in order
    exit        \* main's return value, None while running

inputs == <<timeout, method, filters, argParent, env, x, resp, args, fsys>>
vars == <<timeout, method, filters, argParent, env, x, resp, args, fsys, pc, parent,
          detected, queries, walk, opts, result, running, timer, sigq, batch, emitted, others, callCount, loopRuns,
          hist, out, exit>>

\* ------------------------------------------------------------ input data
\* file:///a/b%20c.txt, http://h, FILE:///b
UriSpace == FilePrefix \o <<47, 97, 47, 98, 37, 50, 48, 99, 46, 116, 120, 116>>
UriHttp == <<104, 116, 116, 112, 58, 47, 47, 104>>
UriUpper == <<70, 73, 76, 69, 58, 47, 47, 47, 98>>
\* /a/b c.txt
PathSpace == <<47, 97, 47, 98, 32, 99, 46, 116, 120, 116>>

\* *.RPP, *.rpp, *.txt
GlobRPP == <<42, 46, 82, 80, 80>>
GlobRpp == <<42, 46, 114, 112, 112>>
GlobTxt == <<42, 46, 116, 120, 116>>

NoChoices == [shape |-> "dict", items |-> << >>]
NoAttrs == [uris |-> << >>, choices |-> NoChoices, current_filter |-> None]

\* the attribute mappings drawn for the protocol runs
SmallAttrs ==
    [uris : {<< >>, <<UriSpace>>, <<UriHttp, UriSpace>>},
     choices : {NoChoices,
                [shape |-> "list", items |-> << <<"c1", "true">>, <<"c2", "false">> >>]},
     current_filter : {None, Some([label |-> "Proj", entries |-> << <<0, GlobRpp>> >>])}]

StatusCodes == {0, 1, 2}

Timeouts == (-1)..MaxTimeout
Methods == {"OpenFile", "SaveFile", "SelectFolder"}
FilterArgs == {<< >>, <<[label |-> "Proj", globs |-> <<GlobRPP, GlobTxt>>]>>}

\* REAPER, xterm, bash
ClassReaper == <<82, 69, 65, 80, 69, 82>>
ClassXterm == <<120, 116, 101, 114, 109>>
NameBash == <<98, 97, 115, 104>>

\* a /proc entry whose name is "reaper" (host) or "bash"
ProcEntry(pp, host) ==
    [ppid |-> pp, comm |-> Some(IF host THEN Marker ELSE NameBash), exe |-> None, cmd |-> None]

\* the environment with no directive set, on an X11 session with xprop
EnvOpen == [session |-> Some(<<120, 49, 49>>), noParent |-> None, xprop |-> TRUE, forced |-> None]

\* one snapshot for the protocol runs: the tool's parent 2 is REAPER, child of 1;
\* window 1 is REAPER's main window
SnapOne ==
    [ppid |-> 2,
     table |-> [p \in {1, 2} |-> ProcEntry(Some(p - 1), p = 2)],
     stack |-> <<1>>,
     client |-> <<1>>,
     wins |-> [w \in {1} |-> [types |-> {"NORMAL"}, transient |-> FALSE,
                              wmclass |-> Some(ClassReaper), pid |-> Some(2)]]]

\* x11:0x9 given as --parent
ArgParentToken == X11Prefix \o WidStr(9)

\* /a, /a/a, /h, /a/f
DirA == <<47, 97>>
DirAA == <<47, 97, 47, 97>>
DirHome == <<47, 104>>
FileAF == <<47, 97, 47, 102>>

\* no start location given
NoArgs == [currentFolder |-> None, currentFile |-> None]

\* the file system of the runs: / with the directories a, a/a and h; $HOME is /h
FsysOne == [home |-> DirHome, cwd |-> DirA, dirs |-> {<<47>>, DirA, DirAA, DirHome}]

ProgramInit ==
    /\ pc = "Start"
    /\ parent = None
    /\ detected = None
    /\ queries = << >>
    /\ walk = WalkIdle
    /\ opts = None
    /\ result = InitialResult
    /\ running = FALSE
    /\ timer = "none"
    /\ sigq = << >>
    /\ batch = [t |-> FALSE, n |-> 0]
    /\ emitted = FALSE
    /\ others = 0
    /\ callCount = 0
    /\ loopRuns = 0
    /\ hist = << >>
    /\ out = << >>
    /\ exit = None

Init ==
    /\ timeout \in Timeouts
    /\ method \in Methods
    /\ filters \in FilterArgs
    /\ argParent \in {None, Some(ArgParentToken)}
    /\ env \in {EnvOpen, [EnvOpen EXCEPT !.noParent = Some("1")]}
    /\ x = SnapOne
    /\ args = NoArgs
    /\ fsys = FsysOne
    /\ resp \in [code : StatusCodes, attrs : SmallAttrs]
    /\ ProgramInit

\* ---------------------------------------------------------------- actions
program == <<pc, parent, result, running, timer, batch, callCount, loopRuns, hist, out, exit>>

\* main: decide the parent token, then enter open_via_portal
MainParent ==
    /\ pc = "Start"
    /\ parent' = MainParentToken(env, argParent, x)
    /\ queries' = queries \o MainParentQueries(env, argParent, x)
    /\ pc' = "Open"
    /\ UNCHANGED <<inputs, detected, walk, opts, result, running, timer, sigq,
                   batch, emitted, others, callCount, loopRuns, hist, out, exit>>

\* open_via_portal: session bus, FileChooser proxy, options
OpenSession ==
    /\ pc = "Open"
    /\ opts' = Some(BuildOpts(method, args, fsys, filters))
    /\ pc' = "Calling"
    /\ UNCHANGED <<inputs, parent, detected, queries, walk, result, running, timer,
                   sigq, batch, emitted, others, callCount, loopRuns, hist, out, exit>>

\* ... or one of them raises
OpenSessionFails ==
    /\ pc = "Open"
    /\ pc' = "Raised"
    /\ hist' = Append(hist, "Failed")
    /\ UNCHANGED <<inputs, parent, detected, queries, walk, opts, result, running, timer,
                   sigq, batch, emitted, others, callCount, loopRuns, out, exit>>

\* fc.call_sync returns the request handle
CallMethod ==
    /\ pc = "Calling"
    /\ callCount' = callCount + 1
    /\ pc' = "GotHandle"
    /\ UNCHANGED <<inputs, parent, detected, queries, walk, opts, result, running, timer,
                   sigq, batch, emitted, others, loopRuns, hist, out, exit>>

\* mutant: a failed call is issued again
CallFails_Retries ==
    /\ pc = "Calling"
    /\ callCount' = callCount + 1
    /\ pc' = "Calling"
    /\ UNCHANGED <<inputs, parent, detected, queries, walk, opts, result, running, timer,
                   sigq, batch, emitted, others, loopRuns, hist, out, exit>>

\* fc.call_sync raises
CallFails ==
    /\ pc = "Calling"
    /\ callCount' = callCount + 1
    /\ pc' = "Raised"
    /\ hist' = Append(hist, "Failed")
    /\ UNCHANGED <<inputs, parent, detected, queries, walk, opts, result, running, timer,
                   sigq, batch, emitted, others, loopRuns, out, exit>>

\* the Request proxy subscribes to the handle's signals; result and loop are created
Subscribe ==
    /\ pc = "GotHandle"
    /\ result' = InitialResult
    /\ pc' = "Subscribed"
    /\ UNCHANGED <<inputs, parent, detected, queries, walk, opts, running, timer, sigq,
                   batch, emitted, others, callCount, loopRuns, hist, out, exit>>

\* creating the Request proxy raises
SubscribeFails ==
    /\ pc = "GotHandle"
    /\ pc' = "Raised"
    /\ hist' = Append(hist, "Failed")
    /\ UNCHANGED <<inputs, parent, detected, queries, walk, opts, result, running, timer,
                   sigq, batch, emitted, others, callCount, loopRuns, out, exit>>

\* req.connect, the optional timeout source, loop.run()
StartWait ==
    /\ pc = "Subscribed"
    /\ timer' = IF TimerWanted(timeout) THEN "armed" ELSE "none"
    /\ running' = TRUE
    /\ loopRuns' = loopRuns + 1
    /\ pc' = "Polling"
    /\ UNCHANGED <<inputs, parent, detected, queries, walk, opts, result, sigq, batch,
                   emitted, others, callCount, hist, out, exit>>

Waiting == pc \in {"Polling", "Dispatching"}

\* the service emits the request's one Response; before the proxy has
\* subscribed nobody receives it
ServiceEmit ==
    /\ ~emitted
    /\ pc = "GotHandle" \/ pc = "Subscribed" \/ Waiting
    /\ emitted' = TRUE
    /\ sigq' = IF pc = "GotHandle" THEN sigq ELSE Append(sigq, "Response")
    /\ UNCHANGED <<inputs, program, detected, queries, walk, opts, others>>

\* another signal arrives on the request object
EmitOther ==
    /\ others < MaxOther
    /\ pc = "Subscribed" \/ Waiting
    /\ others' = others + 1
    /\ sigq' = Append(sigq, "Other")
    /\ UNCHANGED <<inputs, program, detected, queries, walk, opts, emitted>>

\* the deadline passes
TimerExpire ==
    /\ timer = "armed"
    /\ Waiting
    /\ timer' = "expired"
    /\ UNCHANGED <<inputs, pc, parent, detected, queries, walk, opts, result, running,
                   sigq, batch, emitted, others, callCount, loopRuns, hist, out, exit>>

\* one iteration of the main loop picks up every source that is ready
LoopCheck ==
    /\ pc = "Polling"
    /\ timer = "expired" \/ sigq # << >>
    /\ batch' = [t |-> timer = "expired", n |-> Len(sigq)]
    /\ pc' = "Dispatching"
    /\ UNCHANGED <<inputs, parent, detected, queries, walk, opts, result, running, timer,
                   sigq, emitted, others, callCount, loopRuns, hist, out, exit>>

\* on_timeout takes effect only while result['done'] is unset
TimeoutActs(res) == ~res.done

\* on_timeout
OnTimeout ==
    /\ pc = "Dispatching"
    /\ batch.t
    /\ batch' = [batch EXCEPT !.t = FALSE]
    /\ timer' = "removed"
    /\ IF TimeoutActs(result)
       THEN /\ result' = [result EXCEPT !.done = TRUE]
            /\ running' = FALSE
            /\ hist' = Append(hist, "TimedOut")
       ELSE UNCHANGED <<result, running, hist>>
    /\ UNCHANGED <<inputs, pc, parent, detected, queries, walk, opts, sigq, emitted,
                   others, callCount, loopRuns, out, exit>>

\* on_resp for the Response signal
OnResp ==
    /\ pc = "Dispatching"
    /\ batch.n > 0
    /\ Head(sigq) = "Response"
    /\ ~Raises(method, resp)
    /\ sigq' = Tail(sigq)
    /\ batch' = [batch EXCEPT !.n = batch.n - 1]
    /\ result' = OnRespResult(result, method, filters, resp.code, resp.attrs)
    /\ running' = FALSE
    /\ hist' = Append(hist, "Completed")
    /\ UNCHANGED <<inputs, pc, parent, detected, queries, walk, opts, timer, emitted,
                   others, callCount, loopRuns, out, exit>>

\* an on_resp without the finally clause: the raise leaves the loop running
OnRespRaises_NoFinally ==
    /\ pc = "Dispatching"
    /\ batch.n > 0
    /\ Head(sigq) = "Response"
    /\ Raises(method, resp)
    /\ sigq' = Tail(sigq)
    /\ batch' = [batch EXCEPT !.n = batch.n - 1]
    /\ result' = RaisedResult(result, method, resp)
    /\ hist' = Append(hist, "Errored")
    /\ UNCHANGED <<inputs, pc, parent, detected, queries, walk, opts, running, timer,
                   emitted, others, callCount, loopRuns, out, exit>>

\* on_resp for a Response signal whose processing raises: the finally clause
\* quits the loop, the exception ends in the callback
OnRespRaises ==
    /\ pc = "Dispatching"
    /\ batch.n > 0
    /\ Head(sigq) = "Response"
    /\ Raises(method, resp)
    /\ sigq' = Tail(sigq)
    /\ batch' = [batch EXCEPT !.n = batch.n - 1]
    /\ result' = RaisedResult(result, method, resp)
    /\ running' = FALSE
    /\ hist' = Append(hist, "Errored")
    /\ UNCHANGED <<inputs, pc, parent, detected, queries, walk, opts, timer, emitted,
                   others, callCount, loopRuns, out, exit>>

\* a handler that quits the loop on every signal name
OnOtherSignal_EndsWait ==
    /\ pc = "Dispatching"
    /\ batch.n > 0
    /\ Head(sigq) # "Response"
    /\ sigq' = Tail(sigq)
    /\ batch' = [batch EXCEPT !.n = batch.n - 1]
    /\ running' = FALSE
    /\ UNCHANGED <<inputs, pc, parent, detected, queries, walk, opts, result,
                   timer, emitted, others, callCount, loopRuns, hist, out, exit>>

\* on_resp for any other signal name: return at once
OnOtherSignal ==
    /\ pc = "Dispatching"
    /\ batch.n > 0
    /\ Head(sigq) # "Response"
    /\ sigq' = Tail(sigq)
    /\ batch' = [batch EXCEPT !.n = batch.n - 1]
    /\ UNCHANGED <<inputs, pc, parent, detected, queries, walk, opts, result, running,
                   timer, emitted, others, callCount, loopRuns, hist, out, exit>>

\* the iteration is over: loop.run() returns once is_running is unset
LoopIterEnd ==
    /\ pc = "Dispatching"
    /\ ~batch.t
    /\ batch.n = 0
    /\ pc' = IF running THEN "Polling" ELSE "Returned"
    /\ UNCHANGED <<inputs, parent, detected, queries, walk, opts, result, running, timer,
                   sigq, batch, emitted, others, callCount, loopRuns, hist, out, exit>>

\* main writes the selection record and returns 0
MainWrite ==
    /\ pc = "Returned"
    /\ out' = Append(out, SuccessOutput(result))
    /\ exit' = Some(0)
    /\ pc' = "Exited"
    /\ UNCHANGED <<inputs, parent, detected, queries, walk, opts, result, running, timer,
                   sigq, batch, emitted, others, callCount, loopRuns, hist>>

\* mutant: the except branch reports the empty selection as a success
MainExcept_WritesSelection ==
    /\ pc = "Raised"
    /\ out' = Append(out, SuccessOutput(result))
    /\ exit' = Some(0)
    /\ pc' = "Exited"
    /\ UNCHANGED <<inputs, parent, detected, queries, walk, opts, result, running, timer,
                   sigq, batch, emitted, others, callCount, loopRuns, hist>>

\* main's except branch writes the failure record and returns 1
MainExcept ==
    /\ pc = "Raised"
    /\ out' = Append(out, ErrorOutput)
    /\ exit' = Some(1)
    /\ pc' = "Exited"
    /\ UNCHANGED <<inputs, parent, detected, queries, walk, opts, result, running, timer,
                   sigq, batch, emitted, others, callCount, loopRuns, hist>>

ProgramStep ==
    \/ MainParent \/ OpenSession \/ CallMethod \/ Subscribe \/ StartWait
    \/ LoopCheck \/ OnTimeout \/ OnResp \/ OnOtherSignal \/ LoopIterEnd
    \/ MainWrite \/ MainExcept

Next ==
    \/ MainParent
    \/ OpenSession
    \/ OpenSessionFails
    \/ CallMethod
    \/ CallFails
    \/ Subscribe
    \/ SubscribeFails
    \/ StartWait
    \/ ServiceEmit
    \/ EmitOther
    \/ TimerExpire
    \/ LoopCheck
    \/ OnTimeout
    \/ OnResp
    \/ OnOtherSignal
    \/ LoopIterEnd
    \/ MainWrite
    \/ MainExcept

Spec == Init /\ [][Next]_vars

\* The protocol runs of one parenting set-up, for the liveness check.
LiveInit ==
    /\ timeout \in Timeouts
    /\ method \in {"OpenFile", "SaveFile"}
    /\ filters = << >>
    /\ argParent = None
    /\ env = EnvOpen
    /\ x = SnapOne
    /\ args = NoArgs
    /\ fsys = FsysOne
    /\ resp \in [code : StatusCodes, attrs : SmallAttrs]
    /\ ProgramInit

\* The program keeps running and time passes; the service owes nothing.
FairSpec == LiveInit /\ [][Next]_vars /\ WF_vars(ProgramStep) /\ WF_vars(TimerExpire)

\* ------------------------------------------- payload runs (URI lists)
\* '/', 't', '%', '2', '0'
UriAlphabet == {47, 116, 37, 50, 48}
UriBodies == UNION {[1..k -> UriAlphabet] : k \in 0..MaxBody}
\* "FILE://"
UpperPrefix == <<70, 73, 76, 69, 58, 47, 47>>
BigUris == {pre \o b : pre \in {FilePrefix, UpperPrefix}, b \in UriBodies} \cup {UriSpace, UriHttp}
SmallUris == {UriSpace, UriHttp, UriUpper}
UriTails == UNION {[1..k -> SmallUris] : k \in 0..(MaxUris - 1)}
UriLists == {<< >>} \cup {<<u>> \o rest : u \in BigUris, rest \in UriTails}

RespInit ==
    /\ timeout = 0
    /\ method = "OpenFile"
    /\ filters = << >>
    /\ argParent = None
    /\ env = EnvOpen
    /\ x = SnapOne
    /\ args = NoArgs
    /\ fsys = FsysOne
    /\ resp \in [code : {0, 1}, attrs : [uris : UriLists, choices : {NoChoices},
                                         current_filter : {None}]]
    /\ ProgramInit

RespNext ==
    \/ MainParent
    \/ OpenSession
    \/ CallMethod
    \/ Subscribe
    \/ StartWait
    \/ ServiceEmit
    \/ LoopCheck
    \/ OnResp
    \/ LoopIterEnd
    \/ MainWrite

SpecResp == RespInit /\ [][RespNext]_vars

\* ------------------------------------------- parenting runs (resolver)
Wins == 1..MaxWin

\* every order of every subset of a set of windows
RECURSIVE Orders(_)
Orders(S) == {<< >>} \cup UNION {{<<w>> \o rest : rest \in Orders(S \ {w})} : w \in S}

\* The tool's parent 2 and grandparent 1 are its ancestors, each REAPER or not;
\* 3 is another REAPER, a child of 1 and no ancestor.
ParentTable(h1, h2) ==
    [p \in {1, 2, 3} |-> IF p = 1 THEN ProcEntry(Some(0), h1)
                         ELSE IF p = 2 THEN ProcEntry(Some(1), h2)
                         ELSE ProcEntry(Some(1), TRUE)]

\* what xprop may report of one window: any owner, and properties that
\* pass the three property tests or fail one of them
WinAttrs ==
    {a \in [types : {{"NORMAL"}, {"DIALOG"}},
            transient : BOOLEAN,
            wmclass : {Some(ClassReaper), Some(ClassXterm)},
            pid : {None, Some(1), Some(2), Some(3)}] :
        Cardinality({f \in {"types", "transient", "wmclass"} :
                        \/ f = "types" /\ ~IsNormal(a)
                        \/ f = "transient" /\ HasTransientFor(a)
                        \/ f = "wmclass" /\ ~WmClassHasReaper(a)}) <= 1}

ParentInit ==
    /\ timeout = 0
    /\ method = "OpenFile"
    /\ filters = << >>
    /\ argParent = None
    /\ env = EnvOpen
    /\ \E h1 \in BOOLEAN, h2 \in BOOLEAN, st \in Orders(Wins), ws \in [Wins -> WinAttrs] :
          x = [ppid |-> 2, table |-> ParentTable(h1, h2), stack |-> st,
               client |-> [i \in Wins |-> i], wins |-> ws]
    /\ resp = [code |-> 1, attrs |-> NoAttrs]
    /\ args = NoArgs
    /\ fsys = FsysOne
    /\ ProgramInit

\* a call of detect_parent_x11_via_anc
DetectParent ==
    /\ pc = "Start"
    /\ detected = None
    /\ detected' = Some(DetectParentX11ViaAnc(env, x))
    /\ queries' = queries \o DetectQueries(env, x)
    /\ UNCHANGED <<inputs, program, walk, opts, sigq, emitted, others>>

SpecParent == ParentInit /\ [][DetectParent]_vars

\* ------------------------------- parenting runs (environment directives)
\* XDG_SESSION_TYPE: unset, x11, wayland, Wayland
SessionTypes ==
    {None, Some(<<120, 49, 49>>), Some(Wayland), Some(<<87>> \o Tail(Wayland))}

\* wayland:h
WaylandToken == Wayland \o <<58, 104>>

\* PORTAL_PARENT: unset, empty, x11:0x9, wayland:h
ForcedValues == {None, Some(<< >>), Some(ArgParentToken), Some(WaylandToken)}

GateEnvs ==
    [session : SessionTypes, noParent : {None, Some("1"), Some("0")},
     xprop : BOOLEAN, forced : ForcedValues]

\* REAPER's window in the stacking list, in the client list only, or no window
GateSnaps ==
    {SnapOne, [SnapOne EXCEPT !.stack = << >>],
     [SnapOne EXCEPT !.stack = << >>, !.client = << >>]}

GateInit ==
    /\ timeout = 0
    /\ method = "OpenFile"
    /\ filters = << >>
    /\ argParent = None
    /\ env \in GateEnvs
    /\ x \in GateSnaps
    /\ resp = [code |-> 1, attrs |-> NoAttrs]
    /\ args = NoArgs
    /\ fsys = FsysOne
    /\ ProgramInit

SpecGate == GateInit /\ [][DetectParent]_vars

\* ------------------------------------- ancestor-walk runs (/proc tables)
Pids == 1..MaxPid

\* what /proc/<pid>/status may give as PPid: unreadable, negative, 0, a pid
ParentLinks == {None, Some(-1), Some(0)} \cup {Some(q) : q \in Pids}

\* every parent-link relation over the pids; process 1 is REAPER
ProcTables == {[p \in Pids |-> ProcEntry(l[p], p = 1)] : l \in [Pids -> ParentLinks]}

WalkInit ==
    /\ timeout = 0
    /\ method = "OpenFile"
    /\ filters = << >>
    /\ argParent = None
    /\ env = EnvOpen
    /\ \E t \in ProcTables, pp \in 0..MaxPid :
          x = [ppid |-> pp, table |-> t, stack |-> << >>, client |-> << >>,
               wins |-> [w \in {} |-> 0]]
    /\ resp = [code |-> 1, attrs |-> NoAttrs]
    /\ args = NoArgs
    /\ fsys = FsysOne
    /\ ProgramInit

\* collect_ancestors is entered: empty sets, pid = os.getppid()
WalkBegin ==
    /\ walk.pc = "idle"
    /\ walk' = [WalkIdle EXCEPT !.pc = "loop", !.pid = Some(x.ppid)]
    /\ UNCHANGED <<inputs, program, detected, queries, opts, sigq, emitted, others>>

\* a loop body that gives up on a pid of which a field cannot be read
WalkStep_StopsOnUnreadable ==
    /\ walk.pc = "loop"
    /\ WalkContinues(walk.pid, walk.seen)
    /\ LET p == walk.pid[1]
           t == x.table[p]
       IN  /\ walk' = IF t.comm = None \/ t.exe = None \/ t.cmd = None
                      THEN [walk EXCEPT !.pc = "returned"]
                      ELSE [pc |-> "loop",
                            pid |-> t.ppid,
                            seen |-> walk.seen \cup {p},
                            anc |-> walk.anc \cup {p},
                            rea |-> IF IsReaperProc(t) THEN walk.rea \cup {p} ELSE walk.rea,
                            visited |-> Append(walk.visited, p)]
           /\ queries' = queries \o ProcReads(p)
    /\ UNCHANGED <<inputs, program, detected, opts, sigq, emitted, others>>

\* one pass through the loop body
WalkStep ==
    /\ walk.pc = "loop"
    /\ WalkContinues(walk.pid, walk.seen)
    /\ LET p == walk.pid[1]
       IN  /\ walk' = [pc |-> "loop",
                       pid |-> x.table[p].ppid,
                       seen |-> walk.seen \cup {p},
                       anc |-> walk.anc \cup {p},
                       rea |-> IF IsReaperProc(x.table[p]) THEN walk.rea \cup {p}
                               ELSE walk.rea,
                       visited |-> Append(walk.visited, p)]
           /\ queries' = queries \o ProcReads(p)
    /\ UNCHANGED <<inputs, program, detected, opts, sigq, emitted, others>>

\* the loop condition fails: return anc, reaper_anc
WalkReturn ==
    /\ walk.pc = "loop"
    /\ ~WalkContinues(walk.pid, walk.seen)
    /\ walk' = [walk EXCEPT !.pc = "returned"]
    /\ UNCHANGED <<inputs, program, detected, queries, opts, sigq, emitted, others>>

WalkNext ==
    \/ WalkBegin
    \/ WalkStep
    \/ WalkReturn

SpecWalk == WalkInit /\ [][WalkNext]_vars

\* --------------------------------- host-affiliation runs (command lines)
\* "reaper", "REAPER", "x", " ", "/"
CmdPieces == {Marker, ClassReaper, <<120>>, <<32>>, <<47>>}

\* the command lines made of at most MaxCmd pieces
CmdLines == {Flatten(ps) : ps \in UNION {[1..k -> CmdPieces] : k \in 0..MaxCmd}}

\* the tool's parent is process 1, whose own parent link cannot be read
HostInit ==
    /\ timeout = 0
    /\ method = "OpenFile"
    /\ filters = << >>
    /\ argParent = None
    /\ env = EnvOpen
    /\ \E c \in {None, Some(NameBash), Some(Marker)}, l \in {None} \cup {Some(cl) : cl \in CmdLines} :
          x = [ppid |-> 1,
               table |-> [p \in {1} |-> [ppid |-> None, comm |-> c, exe |-> None, cmd |-> l]],
               stack |-> << >>, client |-> << >>, wins |-> [w \in {} |-> 0]]
    /\ resp = [code |-> 1, attrs |-> NoAttrs]
    /\ args = NoArgs
    /\ fsys = FsysOne
    /\ ProgramInit

SpecHost == HostInit /\ [][WalkNext]_vars

\* ------------------------------------- option runs (start location)
\* '/', '.', '~', 'a'
PathAlphabet == {47, 46, 126, 97}

\* the --current-folder values: every string of at most MaxPath characters
GivenPaths == UNION {[1..k -> PathAlphabet] : k \in 0..MaxPath}

OptsInit ==
    /\ timeout = 0
    /\ method \in Methods
    /\ filters = << >>
    /\ argParent = None
    /\ env = EnvOpen
    /\ x = SnapOne
    /\ resp = [code |-> 1, attrs |-> NoAttrs]
    /\ args \in [currentFolder : {None} \cup {Some(g) : g \in GivenPaths},
                 currentFile : {None, Some(<< >>), Some(FileAF)}]
    /\ fsys \in {FsysOne, [FsysOne EXCEPT !.cwd = <<47>>]}
    /\ ProgramInit

OptsNext ==
    \/ MainParent
    \/ OpenSession

SpecOpts == OptsInit /\ [][OptsNext]_vars

\* ------------------------------------- payload runs (choices attribute)
ChoicePairs == {<<k, v>> : k \in {"c1", "c2"}, v \in {"true", "false", "1"}}
ChoiceItems == UNION {[1..k -> ChoicePairs] : k \in 0..MaxChoices}

\* a mapping has each key once; a list of pairs may repeat one
ChoiceAttrs ==
    {[shape |-> "list", items |-> it] : it \in ChoiceItems}
    \cup {[shape |-> "dict", items |-> it] :
              it \in {d \in ChoiceItems : \A i, j \in 1..Len(d) : d[i][1] = d[j][1] => i = j}}

ChoiceInit ==
    /\ timeout = 0
    /\ method \in {"OpenFile", "SaveFile"}
    /\ filters = << >>
    /\ argParent = None
    /\ env = EnvOpen
    /\ x = SnapOne
    /\ resp \in [code : {0, 1}, attrs : [uris : {<< >>}, choices : ChoiceAttrs,
                                         current_filter : {None}]]
    /\ args = NoArgs
    /\ fsys = FsysOne
    /\ ProgramInit

SpecChoice == ChoiceInit /\ [][RespNext]_vars

\* ------------------------------------- parenting runs (window lists)
\* windows that pass the three property tests, of any owner
OrderAttrs == {a \in WinAttrs : IsNormal(a) /\ ~HasTransientFor(a) /\ WmClassHasReaper(a)}

\* the stacking list and the client list are any orders of any windows,
\* each of the two possibly empty
OrderInit ==
    /\ timeout = 0
    /\ method = "OpenFile"
    /\ filters = << >>
    /\ argParent = None
    /\ env = EnvOpen
    /\ \E h1 \in BOOLEAN, h2 \in BOOLEAN, st \in Orders(Wins), cl \in Orders(Wins),
          ws \in [Wins -> OrderAttrs] :
          x = [ppid |-> 2, table |-> ParentTable(h1, h2), stack |-> st,
               client |-> cl, wins |-> ws]
    /\ resp = [code |-> 1, attrs |-> NoAttrs]
    /\ args = NoArgs
    /\ fsys = FsysOne
    /\ ProgramInit

SpecOrder == OrderInit /\ [][DetectParent]_vars

\* --------------------------------- ancestor-walk runs (unreadable files)
\* /reaper
ExeReaper == <<47>> \o Marker

\* each of comm, exe and cmdline of a pid is unreadable or readable
FieldProfiles ==
    [comm : {None, Some(NameBash)}, exe : {None, Some(ExeReaper)}, cmd : {None, Some(Marker)}]

\* a chain MaxPid -> ... -> 1, where the parent link of 1 is unreadable, 0,
\* or points back to the start
FieldTables ==
    {[p \in Pids |-> [ppid |-> IF p = 1 THEN top ELSE Some(p - 1),
                      comm |-> f[p].comm, exe |-> f[p].exe, cmd |-> f[p].cmd]] :
        f \in [Pids -> FieldProfiles], top \in {None, Some(0), Some(MaxPid)}}

FieldInit ==
    /\ timeout = 0
    /\ method = "OpenFile"
    /\ filters = << >>
    /\ argParent = None
    /\ env = EnvOpen
    /\ \E t \in FieldTables :
          x = [ppid |-> MaxPid, table |-> t, stack |-> << >>, client |-> << >>,
               wins |-> [w \in {} |-> 0]]
    /\ resp = [code |-> 1, attrs |-> NoAttrs]
    /\ args = NoArgs
    /\ fsys = FsysOne
    /\ ProgramInit

SpecFields == FieldInit /\ [][WalkNext]_vars

\* ------------------------------------- payload runs (reported filter)
\* the patterns of one --filter: *.RPP, *.rpp, *.txt in any order, repeats allowed
OriginalLists == UNION {[1..k -> {GlobRPP, GlobRpp, GlobTxt}] : k \in 1..MaxGlobs}

\* (kind, value) entries of a reported filter: globs and a MIME-kind entry
ReportedEntries == {<<0, GlobRPP>>, <<0, GlobRpp>>, <<0, GlobTxt>>, <<1, GlobTxt>>}
ReportedLists == UNION {[1..k -> ReportedEntries] : k \in 0..MaxGlobs}

MapInit ==
    /\ timeout = 0
    /\ method = "SaveFile"
    /\ \E og \in OriginalLists : filters = <<[label |-> "Proj", globs |-> og]>>
    /\ argParent = None
    /\ env = EnvOpen
    /\ x = SnapOne
    /\ \E c \in {0, 1}, en \in ReportedLists :
          resp = [code |-> c,
                  attrs |-> [uris |-> << >>, choices |-> NoChoices,
                             current_filter |-> Some([label |-> "Proj", entries |-> en])]]
    /\ args = NoArgs
    /\ fsys = FsysOne
    /\ ProgramInit

SpecMap == MapInit /\ [][RespNext]_vars

\* ----------------------------------- option runs (parent directives)
\* --parent: not given, empty, x11:0x9, wayland:h
ParentArgs == {None, Some(<< >>), Some(ArgParentToken), Some(WaylandToken)}

MainInit ==
    /\ timeout = 0
    /\ method = "OpenFile"
    /\ filters = << >>
    /\ argParent \in ParentArgs
    /\ env \in GateEnvs
    /\ x \in GateSnaps
    /\ resp = [code |-> 1, attrs |-> NoAttrs]
    /\ args = NoArgs
    /\ fsys = FsysOne
    /\ ProgramInit

SpecMain == MainInit /\ [][OptsNext]_vars

\* ------------------------------------- payload runs (ill-typed payload)
Faults == {"body", "uris", "label"}

RaiseInit ==
    /\ timeout \in 0..MaxTimeout
    /\ method \in {"OpenFile", "SaveFile"}
    /\ filters \in FilterArgs
    /\ argParent = None
    /\ env = EnvOpen
    /\ x = SnapOne
    /\ resp \in [code : {0, 1}, attrs : SmallAttrs, fault : Faults]
    /\ args = NoArgs
    /\ fsys = FsysOne
    /\ ProgramInit

RaiseNext ==
    \/ MainParent
    \/ OpenSession
    \/ CallMethod
    \/ Subscribe
    \/ StartWait
    \/ ServiceEmit
    \/ TimerExpire
    \/ LoopCheck
    \/ OnTimeout
    \/ OnResp
    \/ OnRespRaises
    \/ LoopIterEnd
    \/ MainWrite

SpecRaise == RaiseInit /\ [][RaiseNext]_vars

\* ------------------------------------------------- derived observations
\* on_resp has handled the Response
RespHandled == \E i \in 1..Len(hist) : hist[i] = "Completed"

\* no paths, no choices, no filter
EmptySelection(res) ==
    res.paths = << >> /\ res.choices = EmptyDict /\ res.label = None /\ res.globs = None

\* the record main writes for an empty selection
EmptyOutput ==
    [path |-> None, paths |-> << >>, choices |-> EmptyDict,
     selected_filter_label |-> None, selected_filter_globs |-> None]

\* ------------------------------------------------------------------ C1
\* C1: in every interleaving of the Response signal and the deadline timer
\* the first event handled ends the wait and determines the result: once a
\* terminal transition has been taken, the handler of the losing event
\* changes nothing in the result record.
C1_FirstEventWins == [][hist # << >> => result' = result]_vars

\* ------------------------------------------------------------------ C2
\* C2: with a timeout > 0 and no Response ever delivered, the wait ends in
\* TimedOut, and the invocation writes the empty selection and returns 0.
C2_TimeoutEndsWait ==
    (timeout > 0 /\ pc = "Polling")
        ~> (RespHandled \/ (/\ pc = "Exited"
                            /\ hist = <<"TimedOut">>
                            /\ out = <<EmptyOutput>>
                            /\ exit = Some(0)))

C2_Witness ==
    /\ timeout > 0 /\ ~emitted
    /\ pc = "Exited" /\ hist = <<"TimedOut">> /\ out = <<EmptyOutput>> /\ exit = Some(0)

\* ------------------------------------------------------------------ C3
\* C3: once the deadline has ended the wait (the first terminal transition is
\* TimedOut), the result record stays the empty result of the timeout, also
\* when a Response is handled afterwards, and the empty selection is written.
C3_LateResponseIgnored ==
    (hist # << >> /\ hist[1] = "TimedOut")
        => /\ EmptySelection(result)
           /\ pc = "Exited" => out = <<EmptyOutput>>

\* ------------------------------------------------------------------ C4
\* C4: with timeout 0 no deadline is armed, TimedOut is never taken, and from
\* loop.run() on the driver keeps waiting until on_resp handles a Response.
C4_ZeroWaitsForever ==
    timeout = 0
        => /\ timer = "none"
           /\ \A i \in 1..Len(hist) : hist[i] # "TimedOut"
           /\ (loopRuns > 0 /\ ~RespHandled) => (Waiting /\ running)

C4_Witness ==
    /\ timeout = 0 /\ pc = "Polling" /\ running
    /\ others > 0 /\ sigq = << >> /\ hist = << >>

\* ------------------------------------------------------------------ C5
\* C5: a handled Response with a non-zero status ends the wait with no paths,
\* no choices and no filter, whatever its attributes, and the invocation
\* writes the empty selection and returns 0, never the failure record.
C5_NonZeroIsEmpty ==
    (resp.code # 0 /\ RespHandled)
        => /\ EmptySelection(result)
           /\ result.done
           /\ ~running
           /\ pc # "Raised"
           /\ pc = "Exited" => (out = <<EmptyOutput>> /\ exit = Some(0))

C5_Witness ==
    /\ resp.code # 0 /\ RespHandled /\ pc = "Exited"
    /\ resp.attrs.uris # << >> /\ resp.attrs.current_filter # None /\ method = "SaveFile"

\* ------------------------------------------------------------------ C7
\* C7: when opening the session, the method call or the request proxy raises,
\* the invocation never runs the wait loop, and it ends with the failure
\* record as its only output and exit status 1.
C7_CallFailureIsFatal ==
    (\E i \in 1..Len(hist) : hist[i] = "Failed")
        => /\ hist = <<"Failed">>
           /\ loopRuns = 0
           /\ pc \in {"Raised", "Exited"}
           /\ pc = "Raised" => out = << >>
           /\ pc = "Exited" => (/\ out = <<ErrorOutput>>
                                /\ DOMAIN out[1] = {"error"}
                                /\ exit = Some(1))

C7_Witness == pc = "Exited" /\ hist = <<"Failed">> /\ callCount = 1 /\ exit = Some(1)

RECURSIVE PercentDecoded(_)
PercentDecoded(s) ==
    IF s = << >> THEN << >>
    ELSE IF s[1] = 37 /\ Len(s) >= 3 /\ IsHex(s[2]) /\ IsHex(s[3])
         THEN <<16 * HexVal(s[2]) + HexVal(s[3])>> \o PercentDecoded(SubSeq(s, 4, Len(s)))
    ELSE <<s[1]>> \o PercentDecoded(Tail(s))

\* C6: after a status-0 Response the path list has the length and order of
\* the URI list; a file:// URI appears percent-decoded without the scheme
\* prefix, every other URI appears unchanged; main writes that list.
C6_UrisBecomePaths ==
    (resp.code = 0 /\ RespHandled)
        => LET uris == resp.attrs.uris
           IN  /\ Len(result.paths) = Len(uris)
               /\ \A i \in 1..Len(uris) :
                     result.paths[i] =
                        IF Len(uris[i]) >= 7 /\ SubSeq(uris[i], 1, 7) = FilePrefix
                        THEN PercentDecoded(SubSeq(uris[i], 8, Len(uris[i])))
                        ELSE uris[i]
               /\ pc = "Exited" => out[1].paths = result.paths

\* file:///a/b%20c.txt comes out as /a/b c.txt, after a passed-through URI
C6_Witness ==
    /\ resp.code = 0 /\ RespHandled /\ pc = "Exited"
    /\ resp.attrs.uris = <<UriSpace, UriHttp>>
    /\ out[1].paths = <<PathSpace, UriHttp>>

\* a URI whose %-sequences are not all well formed has been handled
C6_WitnessOdd ==
    /\ resp.code = 0 /\ RespHandled
    /\ resp.attrs.uris = <<FilePrefix \o <<37, 37, 50>> >>

\* ------------------------------------------------------------- C9, C10
\* the candidate list of the snapshot, and the ancestor sets of the walk
Candidates == CandidateIds(x.stack, x.client)
AncestorPids == CollectAncestors(x.table, x.ppid).anc
HostPids == CollectAncestors(x.table, x.ppid).reaper

\* window w passes the four filters
PassesFilters(w) ==
    /\ "NORMAL" \in x.wins[w].types
    /\ ~x.wins[w].transient
    /\ x.wins[w].wmclass # None
    /\ Contains(Lower(x.wins[w].wmclass[1]), Marker)
    /\ x.wins[w].pid # None
    /\ x.wins[w].pid[1] \in AncestorPids

\* the resolver has returned window w
Selected(w) == detected = Some(Some(X11Prefix \o WidStr(w)))

\* C9: when the candidates hold a passing window of a host-affiliated
\* ancestor and a passing window of a merely-related ancestor, the resolver
\* returns a window of a host-affiliated ancestor, in every candidate order.
C9_HostAffiliatedPreferred ==
    (/\ detected # None
     /\ \E i \in 1..Len(Candidates) :
           PassesFilters(Candidates[i]) /\ x.wins[Candidates[i]].pid[1] \in HostPids
     /\ \E j \in 1..Len(Candidates) :
           PassesFilters(Candidates[j]) /\ x.wins[Candidates[j]].pid[1] \notin HostPids)
        => \E w \in Wins : Selected(w) /\ x.wins[w].pid[1] \in HostPids

\* the merely-related ancestor's window is scanned first, the host's is returned
C9_Witness ==
    /\ Len(Candidates) = 2
    /\ PassesFilters(Candidates[1]) /\ x.wins[Candidates[1]].pid[1] \notin HostPids
    /\ PassesFilters(Candidates[2]) /\ x.wins[Candidates[2]].pid[1] \in HostPids
    /\ Selected(Candidates[2])

\* C10: a window the heuristic returns is a candidate that is normal, not
\* transient, has the marker in its class name whatever the case, and is
\* owned by a known pid of the ancestor set.
C10_SelectedPassesFilters ==
    /\ detected \in {None, Some(None)} \/ \E w \in Wins : Selected(w)
    /\ \A w \in Wins :
          Selected(w) => (PassesFilters(w) /\ \E i \in 1..Len(Candidates) : Candidates[i] = w)

\* the top-most window matches by class but belongs to REAPER 3, no ancestor,
\* (or to nobody); the window below it is returned
C10_Witness ==
    /\ Len(Candidates) = 2
    /\ x.wins[Candidates[1]] \in
          {[types |-> {"NORMAL"}, transient |-> FALSE, wmclass |-> Some(ClassReaper), pid |-> q] :
              q \in {None, Some(3)}}
    /\ Selected(Candidates[2])

\* ------------------------------------------------------------- C12, C13
\* one of the three short-circuit gates applies
GateApplies ==
    \/ env.session # None /\ Lower(env.session[1]) = Wayland
    \/ env.noParent = Some("1")
    \/ ~env.xprop

\* C12: under a Wayland session, the no-parent directive or a missing
\* window-query tool, the resolver returns the empty token and has read
\* neither /proc nor any window property, whatever the snapshot and the
\* forced-parent override.
C12_GatesReturnEmpty ==
    (detected # None /\ GateApplies) => (detected = Some(None) /\ queries = << >>)

\* a gate applies while an x11 override is set and REAPER's window is there
C12_Witness ==
    /\ detected = Some(None)
    /\ GateApplies
    /\ env.forced = Some(ArgParentToken)
    /\ x = SnapOne

\* C13: with no gate applying and a forced-parent override present, the
\* resolver returns exactly the override, whether it is an x11 or a wayland
\* token, and reads neither /proc nor any window property.
C13_ForcedOverrideVerbatim ==
    (detected # None /\ ~GateApplies /\ env.forced # None /\ env.forced[1] # << >>)
        => (detected = Some(env.forced) /\ queries = << >>)

\* ------------------------------------------------------------------ C14
\* the pids reachable from the pids of S along the parent links
RECURSIVE ReachableFrom(_)
ReachableFrom(S) ==
    LET next == S \cup {x.table[p].ppid[1] :
                           p \in {q \in S : x.table[q].ppid # None /\ x.table[q].ppid[1] > 0}}
    IN  IF next = S THEN S ELSE ReachableFrom(next)

\* N: the number of distinct pids reachable from the immediate parent
ChainDepth == Cardinality(ReachableFrom(IF x.ppid > 0 THEN {x.ppid} ELSE {}))

\* C14: for every parent-link relation, cyclic or ending in 0, a negative
\* id or an unreadable link, the walk makes at most N passes through its
\* loop (N + 1 tests of the loop condition), cannot go on after N passes,
\* and processes no pid twice.
C14_WalkTerminates ==
    /\ Len(walk.visited) <= ChainDepth
    /\ Len(walk.visited) + (IF walk.pc = "returned" THEN 1 ELSE 0) <= ChainDepth + 1
    /\ (walk.pc = "loop" /\ Len(walk.visited) = ChainDepth)
          => ~(walk.pid # None /\ walk.pid[1] > 0 /\ walk.pid[1] \notin walk.seen)
    /\ \A i, j \in 1..Len(walk.visited) : walk.visited[i] = walk.visited[j] => i = j
    /\ walk.pc = "returned" => walk.anc = {walk.visited[i] : i \in 1..Len(walk.visited)}

\* the links form a cycle over all pids and the walk has stopped at the repeat
C14_Witness ==
    /\ walk.pc = "returned"
    /\ Len(walk.visited) = MaxPid
    /\ walk.pid # None /\ walk.pid[1] = x.ppid

\* ------------------------------------------------------------------ C15
IsSpace(c) == c \in {32, 9, 10}

\* the marker stands in the line as a whitespace-delimited token of its own
StandaloneToken(line) ==
    \E i \in 1..(Len(line) - Len(Marker) + 1) :
        /\ SubSeq(line, i, i + Len(Marker) - 1) = Marker
        /\ i = 1 \/ IsSpace(line[i - 1])
        /\ i + Len(Marker) > Len(line) \/ IsSpace(line[i + Len(Marker)])

\* the line begins with the marker
LinePrefix(line) == Len(line) >= Len(Marker) /\ SubSeq(line, 1, Len(Marker)) = Marker

\* C15: an ancestor whose name and executable path do not hold the marker is
\* host-affiliated exactly when its lower-cased command line has the marker
\* as a standalone whitespace-delimited token or as a prefix of the line; a
\* marker that is only part of a longer word does not flag it.
C15_CmdlineTokenOrPrefix ==
    (/\ walk.pc = "returned"
     /\ 1 \in walk.anc
     /\ x.table[1].comm \in {None, Some(NameBash)}
     /\ x.table[1].exe = None
     /\ x.table[1].cmd # None)
        => LET line == Lower(x.table[1].cmd[1])
           IN  (1 \in walk.rea) <=> (StandaloneToken(line) \/ LinePrefix(line))

\* ------------------------------------------------------------- C16, C19
\* a start location was given on the command line (an empty value counts
\* as not given)
Provided(a) == a # None /\ a[1] # << >>

\* the start folder sent, without its last byte
SentFolder == SubSeq(opts[1].current_folder[1], 1, Len(opts[1].current_folder[1]) - 1)

\* --current-folder after tilde expansion and absolutisation
NormalisedFolder == AbsPath(fsys.cwd, ExpandUser(fsys.home, args.currentFolder[1]))

\* C16: the start folder sent is the home directory when no folder is given
\* or the given one, tilde-expanded and made absolute without resolving
\* links, is not an existing directory; else it is that normalised path; in
\* both cases followed by exactly one NUL byte, so that a path that is no
\* directory is never sent.
C16_DirectoryOrDefault ==
    (opts # None /\ opts[1].current_folder # None)
        => LET b == opts[1].current_folder[1]
           IN  /\ b # << >> /\ b[Len(b)] = 0
               /\ 0 \notin Range(SentFolder)
               /\ ~Provided(args.currentFolder) => SentFolder = fsys.home
               /\ (Provided(args.currentFolder) /\ IsDir(fsys, NormalisedFolder))
                     => SentFolder = NormalisedFolder
               /\ (Provided(args.currentFolder) /\ ~IsDir(fsys, NormalisedFolder))
                     => SentFolder = fsys.home
               /\ IsDir(fsys, SentFolder)

\* --current-folder "~/.." is sent as "/"
C16_Witness ==
    /\ opts # None
    /\ args.currentFolder = Some(<<126, 47, 46, 46>>)
    /\ opts[1].current_folder = Some(<<47, 0>>)

\* --current-folder "/a/~" names no directory and $HOME is sent
C16_WitnessFallback ==
    /\ opts # None
    /\ args.currentFolder = Some(<<47, 97, 47, 126>>)
    /\ opts[1].current_folder = Some(DirHome \o <<0>>)

\* C19: OpenFile and SelectFolder always send current_folder (the home
\* directory when none is given); SaveFile sends it exactly when
\* --current-folder is given or --current-file is not.
C19_StartFolderRule ==
    opts # None
        => /\ method \in {"OpenFile", "SelectFolder"}
                => /\ opts[1].current_folder # None
                   /\ ~Provided(args.currentFolder) => SentFolder = fsys.home
           /\ method = "SaveFile"
                => (opts[1].current_folder # None
                      <=> (Provided(args.currentFolder) \/ ~Provided(args.currentFile)))

\* SaveFile with a start file and no start folder: no current_folder is sent
C19_Witness ==
    /\ method = "SaveFile"
    /\ opts # None
    /\ args.currentFile = Some(FileAF)
    /\ args.currentFolder = None
    /\ opts[1].current_folder = None
    /\ opts[1].current_file = Some(FileAF \o <<0>>)

\* ------------------------------------------------------------------ C17
\* the filter the Response reports as active
ReportedFilter == resp.attrs.current_filter[1]

\* the Response reports requested filter i with patterns among the
\* case-duplicated variants that were sent for it
ReportsSentVariants(i) ==
    /\ filters[i].label = ReportedFilter.label
    /\ \A j \in 1..(i - 1) : filters[j].label # ReportedFilter.label
    /\ ReportedFilter.entries # << >>
    /\ \A k \in 1..Len(ReportedFilter.entries) :
          /\ ReportedFilter.entries[k][1] = 0
          /\ ReportedFilter.entries[k][2] \in Range(opts[1].filters[1][i].globs)

\* C17: when a status-0 Response names a requested filter as active, with
\* patterns among the case variants sent, the result carries that label and,
\* pattern by pattern, the caller's original of the same spelling up to
\* case (*.rpp gives *.RPP), for OpenFile, SaveFile and SelectFolder alike.
C17_FilterRoundTrip ==
    \A i \in 1..Len(filters) :
        (/\ resp.code = 0 /\ RespHandled
         /\ resp.attrs.current_filter # None
         /\ ReportsSentVariants(i))
            => /\ result.label = Some(ReportedFilter.label)
               /\ result.globs # None
               /\ Len(result.globs[1]) = Len(ReportedFilter.entries)
               /\ \A k \in 1..Len(ReportedFilter.entries) :
                     /\ result.globs[1][k] \in Range(filters[i].globs)
                     /\ Lower(result.globs[1][k]) = Lower(ReportedFilter.entries[k][2])

\* ------------------------------------------------------------------ C18
\* the pairs of the Response's choices attribute, and whether they
\* associate each id with one value
Associations == resp.attrs.choices.items
OneValuePerId == \A i, j \in 1..Len(Associations) : Associations[i][1] = Associations[j][1] => i = j

\* C18: after a status-0 Response the choice mapping has exactly the ids of
\* the choices attribute, each mapped to true exactly when its value is the
\* string "true", whether the attribute came as a mapping or as a list of
\* pairs; main writes that mapping.
C18_ChoicesShapeIndependent ==
    (resp.code = 0 /\ RespHandled /\ OneValuePerId)
        => /\ DOMAIN result.choices = {Associations[i][1] : i \in 1..Len(Associations)}
           /\ \A i \in 1..Len(Associations) :
                 result.choices[Associations[i][1]] = (Associations[i][2] = "true")
           /\ \A other \in {"dict", "list"} :
                 result.choices = NormChoices([shape |-> other, items |-> Associations])
           /\ pc = "Exited" => out[1].choices = result.choices

\* a list of pairs with a ticked choice and one whose value is "1"
C18_Witness ==
    /\ resp.code = 0 /\ RespHandled /\ pc = "Exited"
    /\ resp.attrs.choices = [shape |-> "list", items |-> << <<"c1", "true">>, <<"c2", "1">> >>]
    /\ out[1].choices = [k \in {"c1", "c2"} |-> k = "c1"]

\* ------------------------------------------------------------------ C20
\* the score of a candidate: 0 when it fails a filter, 2 for a window of a
\* host-affiliated ancestor, 1 for a window of another ancestor
Score(w) == IF ~PassesFilters(w) THEN 0 ELSE IF x.wins[w].pid[1] \in HostPids THEN 2 ELSE 1

\* a scan of all candidates from position i on that replaces the running
\* best only on a strictly greater score
RECURSIVE FullScan(_, _, _)
FullScan(i, best, bestScore) ==
    IF i > Len(Candidates) THEN best
    ELSE IF Score(Candidates[i]) > bestScore
         THEN FullScan(i + 1, Some(Candidates[i]), Score(Candidates[i]))
    ELSE FullScan(i + 1, best, bestScore)

\* the first candidate of score n in scan order, if any
FirstOfScore(n) ==
    IF \E i \in 1..Len(Candidates) : Score(Candidates[i]) = n
    THEN Some(Candidates[CHOOSE i \in 1..Len(Candidates) :
                            /\ Score(Candidates[i]) = n
                            /\ \A j \in 1..(i - 1) : Score(Candidates[j]) # n])
    ELSE None

\* the token of a window, or the empty token
TokenOf(b) == IF b = None THEN None ELSE Some(X11Prefix \o WidStr(b[1]))

\* C20: the scan that stops at the first score-2 window returns what a scan
\* of all candidates keeping the first window of maximal score returns: the
\* first score-2 window in scan order, else the first score-1 window, else
\* the empty token.
C20_EarlyStopIsFullScan ==
    detected # None
        => /\ detected[1] = TokenOf(FullScan(1, None, 0))
           /\ detected[1] = TokenOf(IF FirstOfScore(2) # None THEN FirstOfScore(2)
                                    ELSE FirstOfScore(1))

\* two windows of host-affiliated ancestors: the scan stops at the upper one
C20_Witness ==
    /\ Len(Candidates) = 2
    /\ Candidates[1] # Candidates[2]
    /\ Score(Candidates[1]) = 2 /\ Score(Candidates[2]) = 2
    /\ Selected(Candidates[1])
    /\ Len(queries) > 0 /\ \A i \in 1..Len(queries) : queries[i].id # Candidates[2] \/ queries[i].kind # "win"

\* two windows of merely-related ancestors: the first one is kept
C20_WitnessTie ==
    /\ Len(Candidates) = 2
    /\ Candidates[1] # Candidates[2]
    /\ Score(Candidates[1]) = 1 /\ Score(Candidates[2]) = 1
    /\ Selected(Candidates[1])

\* ------------------------------------------------------------------ C21
\* the windows the resolver asked xprop about, in the order of the first
\* question about each
ScannedWins ==
    LET typeq == SelectSeq(queries, LAMBDA q : q.kind = "win" /\ q.prop = "_NET_WM_WINDOW_TYPE")
    IN  [i \in 1..Len(typeq) |-> typeq[i].id]

\* the client list has been asked for
ClientListRead ==
    \E i \in 1..Len(queries) : queries[i] = Query("root", 0, "_NET_CLIENT_LIST")

\* s is the beginning of t
IsPrefixOf(s, t) == Len(s) <= Len(t) /\ \A i \in 1..Len(s) : s[i] = t[i]

\* the list `from`, read from its last entry when topFirst and from its
\* first entry otherwise, is the one scanned: the windows asked about are a
\* beginning of it, and the window returned is the earliest of the greatest
\* score
ScansList(from, topFirst) ==
    LET n == Len(from)
        at(i) == IF topFirst THEN from[n + 1 - i] ELSE from[i]
        inOrder == [i \in 1..n |-> at(i)]
    IN  /\ IsPrefixOf(ScannedWins, inOrder)
        /\ \A w \in Wins :
              Selected(w) =>
                 \E i \in 1..n :
                    /\ at(i) = w
                    /\ Score(w) > 0
                    /\ \A j \in 1..(i - 1) : Score(at(j)) < Score(w)
                    /\ \A j \in (i + 1)..n : Score(at(j)) <= Score(w)
        /\ detected[1] = None => \A i \in 1..n : Score(at(i)) = 0

\* C21: a non-empty stacking list is the only source of candidates: it is
\* scanned from its last (top-most) entry to its first, the client list is
\* not asked for, and of the passing windows of equal score the top-most is
\* returned; an empty stacking list makes the client list the source, scanned
\* in the order reported.
C21_StackingFirstElseClient ==
    detected # None
        => /\ x.stack # << >> => ~ClientListRead /\ ScansList(x.stack, TRUE)
           /\ x.stack = << >> => ClientListRead /\ ScansList(x.client, FALSE)

\* two equally scored windows, stacked in the reverse of the client order:
\* the upper one of the stacking list is returned
C21_Witness ==
    /\ Len(x.stack) = 2 /\ x.client = Reverse(x.stack)
    /\ Score(x.stack[1]) = 1 /\ Score(x.stack[2]) = 1
    /\ Selected(x.stack[2])
    /\ ScannedWins = <<x.stack[2], x.stack[1]>>

\* no stacking list: the first window of the client list wins the tie
C21_WitnessClient ==
    /\ x.stack = << >> /\ Len(x.client) = 2 /\ x.client[1] = 2
    /\ Score(x.client[1]) = 1 /\ Score(x.client[2]) = 1
    /\ Selected(x.client[1])

\* ------------------------------------------------------------------ C22
\* a field that was read holds the marker where the host test looks for it
ReadableFieldMatches(t) ==
    \/ t.comm # None /\ Contains(Lower(t.comm[1]), Marker)
    \/ t.exe # None /\ Contains(Lower(t.exe[1]), Marker)
    \/ t.cmd # None /\ (Contains(Lower(t.cmd[1]), SpaceMarker) \/ StartsWith(Lower(t.cmd[1]), Marker))

\* a parent link that ends the walk: unreadable, 0 or less, or a pid seen
EndsWalk(link, seenPids) == link = None \/ link[1] <= 0 \/ link[1] \in seenPids

\* C22: whatever of comm, exe and cmdline cannot be read, every pid the walk
\* comes to is added to the ancestor set, is host-affiliated exactly when one
\* of its readable fields matches, and is followed by its parent; the walk has
\* ended only at a parent link that is unreadable, 0 or less, or a seen pid.
C22_FieldFailureDegradesField ==
    LET v == walk.visited
    IN  /\ \A i \in 1..Len(v) :
              /\ v[i] \in walk.anc
              /\ v[i] \in walk.rea <=> ReadableFieldMatches(x.table[v[i]])
              /\ i < Len(v) => x.table[v[i]].ppid = Some(v[i + 1])
        /\ walk.pc # "idle"
              => /\ v # << >> => v[1] = x.ppid
                 /\ walk.pid = IF v = << >> THEN Some(x.ppid) ELSE x.table[v[Len(v)]].ppid
        /\ walk.pc = "returned" => v # << >> /\ EndsWalk(walk.pid, Range(v))

\* nothing but the parent link of the first ancestor can be read, and the
\* walk went on to the end of the chain
C22_Witness ==
    /\ walk.pc = "returned"
    /\ Len(walk.visited) = MaxPid
    /\ LET t == x.table[walk.visited[1]]
       IN  t.comm = None /\ t.exe = None /\ t.cmd = None
    /\ walk.anc = Pids

\* ------------------------------------------------------------------ C23
\* the patterns (kind 0) of the filter the backend reported
ReportedPatterns ==
    LET globs == SelectSeq(resp.attrs.current_filter[1].entries, LAMBDA en : en[1] = 0)
    IN  [i \in 1..Len(globs) |-> globs[i][2]]

\* the patterns the request gave for the reported label
OriginalPatterns ==
    LET i == CHOOSE i \in 1..Len(filters) : filters[i].label = resp.attrs.current_filter[1].label
    IN  filters[i].globs

\* positions of the originals that equal g up to case
SameCaseless(g) == {i \in 1..Len(OriginalPatterns) : Lower(OriginalPatterns[i]) = Lower(g)}

\* C23: the selected-filter patterns of the record are the reported patterns,
\* one for one and in the reported order, each replaced by the first original
\* pattern of the same lower-cased form, and left as reported when no original
\* has that form.
C23_ReverseMapping ==
    (RespHandled /\ resp.code = 0 /\ ReportedPatterns # << >>)
        => /\ result.globs # None
           /\ Len(result.globs[1]) = Len(ReportedPatterns)
           /\ \A k \in 1..Len(ReportedPatterns) :
                 LET g == ReportedPatterns[k]
                 IN  result.globs[1][k] =
                        IF SameCaseless(g) = {} THEN g
                        ELSE OriginalPatterns[CHOOSE i \in SameCaseless(g) :
                                                 \A j \in SameCaseless(g) : i <= j]

\* originals *.rpp, *.RPP; reported *.RPP, *.txt: the first original and the
\* unknown pattern as reported
C23_Witness ==
    /\ RespHandled /\ resp.code = 0
    /\ OriginalPatterns = <<GlobRpp, GlobRPP>>
    /\ ReportedPatterns = <<GlobRPP, GlobTxt>>
    /\ result.globs = Some(<<GlobRpp, GlobTxt>>)

\* ------------------------------------------------------------------ C24
\* the Response is on its way to on_resp
ResponsePending == \E i \in 1..Len(sigq) : sigq[i] = "Response"

\* C24: once the service has emitted the Response of a request whose handle
\* has been returned, the Response is pending for on_resp until on_resp has
\* handled it, whether it was emitted before or after the Request proxy was
\* created; so the wait cannot outlast it.
C24_NoCompletionLost ==
    (emitted /\ ~RespHandled /\ (pc = "Subscribed" \/ Waiting)) => ResponsePending

\* ------------------------------------------------------------------ C25
\* the handler takes a signal of another name off the request object
OtherSignalHandled == sigq # << >> /\ Head(sigq) # "Response" /\ sigq' = Tail(sigq)

\* C25: handling a signal whose name is not Response changes neither the
\* result record nor the driver: the loop keeps running if it was, no
\* transition is recorded, the deadline source and the output are untouched.
C25_OtherSignalIgnored ==
    [][OtherSignalHandled
          => /\ result' = result
             /\ running' = running
             /\ hist' = hist
             /\ pc' = pc
             /\ timer' = timer
             /\ out' = out /\ exit' = exit]_vars

\* another signal has been handled and the driver is still waiting for the
\* Response, which has not been emitted
C25_Witness ==
    /\ others > 0
    /\ \A i \in 1..Len(sigq) : sigq[i] # "Other"
    /\ ~emitted
    /\ Waiting /\ running
    /\ result = InitialResult
    /\ hist = << >>

\* ------------------------------------------------------------------ C26
\* PORTAL_NO_PARENT=1
NoParentSet == env.noParent = Some("1")

\* a non-empty --parent argument
ParentSupplied == argParent # None /\ argParent[1] # << >>

\* C26: with PORTAL_NO_PARENT=1 the parent string of the portal call is empty
\* whatever --parent and PORTAL_PARENT say; without it a supplied --parent is
\* the parent string as given, on every session type; in both cases nothing
\* of /proc or the window system is read.
C26_NoParentWinsThenArgument ==
    pc # "Start"
        => /\ NoParentSet => ParentParam(parent) = << >> /\ queries = << >>
           /\ (~NoParentSet /\ ParentSupplied)
                 => ParentParam(parent) = argParent[1] /\ queries = << >>

\* the directive is set next to --parent x11:0x9 and PORTAL_PARENT=wayland:h
C26_Witness ==
    /\ pc # "Start"
    /\ NoParentSet
    /\ argParent = Some(ArgParentToken)
    /\ env.forced = Some(WaylandToken)
    /\ parent = None

\* a Wayland session, PORTAL_PARENT set, --parent x11:0x9 and no directive
C26_WitnessWayland ==
    /\ pc # "Start"
    /\ ~NoParentSet
    /\ LowerOrEmpty(env.session) = Wayland
    /\ env.forced = Some(WaylandToken)
    /\ argParent = Some(ArgParentToken)
    /\ parent = Some(ArgParentToken)

\* ------------------------------------------------------------------ C27
\* on_resp has been called for the Response, whether it ran through or raised
ResponseDelivered == \E i \in 1..Len(hist) : hist[i] \in {"Completed", "Errored"}

\* C27: after on_resp has been called for the Response the loop is not
\* running, whether or not the processing of the payload raised; the driver
\* does not go back to polling, has called the method once and run the loop
\* once, and main writes one selection record and returns 0.
C27_ResponseAlwaysEndsWait ==
    ResponseDelivered
        => /\ ~running
           /\ pc \in {"Dispatching", "Returned", "Exited"}
           /\ callCount = 1 /\ loopRuns = 1
           /\ pc = "Exited" => /\ out = <<SuccessOutput(result)>>
                               /\ exit = Some(0)

\* no deadline, the label of the reported filter cannot be hashed: the paths
\* are in the record, done is unset, and main has written the record
C27_Witness ==
    /\ timeout = 0
    /\ resp.fault = "label"
    /\ \E i \in 1..Len(hist) : hist[i] = "Errored"
    /\ result.paths # << >> /\ result.label # None /\ result.globs = None
    /\ ~result.done
    /\ pc = "Exited"

====
